---- MODULE Spec2Model ----
(***************************************************************************)
(* The Streamable-HTTP MCP gateway of CiscoMCPPods (server-http.js):       *)
(* the session registry `transports`, the POST / GET / DELETE handlers of  *)
(* <base>/mcp, the tool and resource handlers, InMemoryEventStore, the    *)
(* auth gate authenticateApiKey and the SIGINT handler.                    *)
(*                                                                         *)
(* The transport object (StreamableHTTPServerTransport) belongs to the     *)
(* MCP SDK and is not part of the repository's sources.  Its steps are the *)
(* definitions whose names start with Lib; they follow the contract the    *)
(* handlers rely on (sessionIdGenerator, onsessioninitialized, onclose,    *)
(* sessionId, handleRequest) and section 4.2 of the specification.         *)
(***************************************************************************)
EXTENDS Integers, Sequences, FiniteSets, TLC

(* ------------------------------ bounds -------------------------------- *)
MaxSessions == 2     \* sessions initialized (ids drawn from randomUUID)
MaxLog == 1          \* events in the log of one session (Spec)
MaxStoreLog == 3     \* events in one log (StoreSpec)
MaxEventId == 2      \* event ids the callers of the store use

VARIABLES
    transports,   \* own properties of the object `transports`: session id -> transport
    tobj,         \* the transports that got a session: sessionId, closed, sse
    eventStores,  \* eventStores[t]: the `events` Map of transport t's InMemoryEventStore
    pending,      \* pending[t]: the backend calls awaited on behalf of transport t
    uuidCount,    \* how many ids randomUUID has returned
    last,         \* the most recent request together with the response it got
    store,        \* StoreSpec: the `events` Map of one InMemoryEventStore
    ret,          \* StoreSpec: the last call on that store and what it returned
    mcpApiKey,    \* config.mcpApiKey (MCP_API_KEY of the environment; "" when unset)
    req,          \* path and X-API-Key header of the request the client sends
    legacy,       \* the legacy SSE server: its connections and its last answer
    sd            \* the SIGINT handler: where it stands in its loop over `transports`

vars == <<transports, tobj, eventStores, pending, uuidCount, last, store, ret,
          mcpApiKey, req, sd, legacy>>
serverVars == <<transports, tobj, eventStores, pending, uuidCount, last>>
storeVars == <<store, ret>>
gateVars == <<mcpApiKey, req>>
shutdownVars == <<sd>>
legacyVars == <<legacy>>

(* ------------------------- InMemoryEventStore ------------------------- *)
\* An event is what the caller hands to addEvent: the store reads only e.id.
\* Event id 0 stands for a falsy id (0 or the empty string).  The payload is
\* the message; the n-th message handed to a log is message n.
EventIds == 0..MaxEventId
Event(id, message) == [id |-> id, payload |-> message]
StoreKeys == {"s1", "s2"}

EmptyMap == [k \in {} |-> << >>]

\* this.events.get(sessionId) || []
StoreGet(m, sessionId) == IF sessionId \in DOMAIN m THEN m[sessionId] ELSE << >>

\* Array.prototype.findIndex(e => e.id === id): 0-based index of the first match, -1 if none
RECURSIVE findIndexFrom(_, _, _)
findIndexFrom(arr, id, i) ==
    IF i > Len(arr) THEN -1
    ELSE IF arr[i].id = id THEN i - 1
    ELSE findIndexFrom(arr, id, i + 1)

findIndex(arr, id) == findIndexFrom(arr, id, 1)

\* Array.prototype.slice(start) for 0 <= start
slice(arr, start) == SubSeq(arr, start + 1, Len(arr))

getEventsAfter_inclusive(m, sessionId, afterEventId) ==
    LET sessionEvents == StoreGet(m, sessionId) IN
    IF afterEventId = 0 THEN sessionEvents
    ELSE LET afterIndex == findIndex(sessionEvents, afterEventId) IN
         IF afterIndex = -1 THEN sessionEvents ELSE slice(sessionEvents, afterIndex)

getEventsAfter(m, sessionId, afterEventId) ==
    LET sessionEvents == StoreGet(m, sessionId) IN
    IF afterEventId = 0 THEN sessionEvents
    ELSE LET afterIndex == findIndex(sessionEvents, afterEventId) IN
         IF afterIndex = -1 THEN sessionEvents ELSE slice(sessionEvents, afterIndex + 1)

addEvent_global(m, sessionId, event) ==
    LET m1 == IF "all" \in DOMAIN m THEN m ELSE m @@ ("all" :> << >>) IN
    [m1 EXCEPT !["all"] = Append(@, event)]

addEvent_unshift(m, sessionId, event) ==
    LET m1 == IF sessionId \in DOMAIN m THEN m ELSE m @@ (sessionId :> << >>) IN
    [m1 EXCEPT ![sessionId] = <<event>> \o @]

addEvent(m, sessionId, event) ==
    LET m1 == IF sessionId \in DOMAIN m THEN m ELSE m @@ (sessionId :> << >>) IN
    [m1 EXCEPT ![sessionId] = Append(@, event)]

clearSession_all(m, sessionId) == EmptyMap

\* this.events.delete(sessionId)
clearSession(m, sessionId) == [k \in DOMAIN m \ {sessionId} |-> m[k]]

NoCall == [op |-> "none", sessionId |-> "", after |-> 0, result |-> << >>]

StoreAddEvent(sessionId, id) ==
    /\ Len(StoreGet(store, sessionId)) < MaxStoreLog
    /\ store' = addEvent(store, sessionId, Event(id, Len(StoreGet(store, sessionId)) + 1))
    /\ ret' = [op |-> "addEvent", sessionId |-> sessionId, after |-> id, result |-> << >>]
    /\ UNCHANGED <<serverVars, gateVars, shutdownVars, legacyVars>>

StoreGetEventsAfter(sessionId, afterEventId) ==
    /\ ret' = [op |-> "getEventsAfter", sessionId |-> sessionId, after |-> afterEventId,
               result |-> getEventsAfter(store, sessionId, afterEventId)]
    /\ UNCHANGED store
    /\ UNCHANGED <<serverVars, gateVars, shutdownVars, legacyVars>>

\* whether what getEventsAfter returns is the array the Map holds (`return
\* sessionEvents`) and not a fresh one (`|| []`, slice)
ReturnsStoredArray(m, sessionId, afterEventId) ==
    /\ sessionId \in DOMAIN m
    /\ afterEventId = 0 \/ findIndex(m[sessionId], afterEventId) = -1

\* addEvent while the caller of the last getEventsAfter still holds what it
\* was given: push changes the array in place, and with it every reference to it
StoreAddEventHeld(sessionId, id) ==
    /\ ret.op = "getEventsAfter"
    /\ Len(StoreGet(store, sessionId)) < MaxStoreLog
    /\ store' = addEvent(store, sessionId, Event(id, Len(StoreGet(store, sessionId)) + 1))
    /\ ret' = IF ret.sessionId = sessionId /\ ReturnsStoredArray(store, ret.sessionId, ret.after)
                  /\ ret.result = store[sessionId]
               THEN [ret EXCEPT !.result = store'[sessionId]]
               ELSE ret
    /\ UNCHANGED <<serverVars, gateVars, shutdownVars, legacyVars>>

StoreClearSession(sessionId) ==
    /\ store' = clearSession(store, sessionId)
    /\ ret' = [op |-> "clearSession", sessionId |-> sessionId, after |-> 0, result |-> << >>]
    /\ UNCHANGED <<serverVars, gateVars, shutdownVars, legacyVars>>

(* ------------------------- requests and replies ----------------------- *)
\* randomUUID(): the n-th id drawn. A UUID is taken never to repeat.
Uuid(n) == "uuid-" \o ToString(n)

\* Property names every object literal inherits from Object.prototype;
\* `transports` is created as {} and is read with transports[sessionId].
ObjectPrototypeKeys == {"constructor"}

\* Values of the Mcp-Session-Id request header; "" is a missing (falsy) header.
SessionHeaders == {""} \cup {Uuid(n) : n \in 1..MaxSessions} \cup ObjectPrototypeKeys

ToolNames ==
    {"get_pod_keyword", "update_pod_keyword", "get_all_pods", "get_pod_by_number",
     "create_pod", "update_pod", "delete_pod"}
ResourceUris == {"pods://keyword", "pods://config"}

ToolInputs == {"get_pod_keyword", "nonexistent_tool"}
UriInputs == {"pods://nope"}

Bodies ==
    {[method |-> "initialize", arg |-> ""], [method |-> "tools/list", arg |-> ""],
     [method |-> "no/such_method", arg |-> ""]}
    \cup {[method |-> "tools/call", arg |-> a] : a \in ToolInputs}
    \cup {[method |-> "resources/read", arg |-> a] : a \in UriInputs}

\* A POST as the transport sees it: its body, and whether its Accept header and
\* JSON-RPC envelope pass the transport's validation (read before the method).
PostInputs ==
    {<<body, TRUE>> : body \in Bodies}
    \cup {<<body, FALSE>> : body \in {b \in Bodies : b.method = "initialize" \/ b.arg = "nonexistent_tool"}}

\* A POST that reaches no transport: the route reads of its body only whether
\* it is an initialize request, so one body of either kind stands for all.
UnroutedBodies == {b \in Bodies : b.method \in {"initialize", "tools/list"}}

\* A GET: Last-Event-Id (0: none) and whether Accept allows text/event-stream
GetInputs == {<<0, TRUE>>, <<1, TRUE>>, <<0, FALSE>>}

Outcome(type, status, kind, code, isError, names) ==
    [type |-> type, status |-> status, kind |-> kind, code |-> code,
     isError |-> isError, names |-> names]

\* truthiness of transports[sessionId]
TransportsTruthy(reg, sessionId) ==
    sessionId \in DOMAIN reg \/ sessionId \in ObjectPrototypeKeys

isInitializeRequest(body) == body.method = "initialize"

onsessioninitialized_lost(reg, sid, t) == reg

onsessioninitialized_shared(reg, sid, t) ==
    [k \in DOMAIN reg \cup {sid} |-> IF k = sid THEN Len(tobj) ELSE reg[k]]

\* onsessioninitialized: (sid) => { transports[sid] = transport }
onsessioninitialized(reg, sid, t) ==
    [k \in DOMAIN reg \cup {sid} |-> IF k = sid THEN t ELSE reg[k]]

onclose_keeps(reg, sid) == reg

\* removal by position, where an absent id removes the newest entry
onclose_splice(reg, sid) ==
    IF sid \in DOMAIN reg THEN [k \in DOMAIN reg \ {sid} |-> reg[k]]
    ELSE IF DOMAIN reg = {} THEN reg
    ELSE LET newest == CHOOSE k \in DOMAIN reg : \A h \in DOMAIN reg : reg[h] <= reg[k]
         IN [k \in DOMAIN reg \ {newest} |-> reg[k]]

\* transport.onclose: if (sid && transports[sid]) delete transports[sid]
onclose(reg, sid) ==
    IF sid # "" /\ TransportsTruthy(reg, sid)
    THEN [k \in DOMAIN reg \ {sid} |-> reg[k]]
    ELSE reg

CallTool_uncaught(name, backendOk) ==
    IF name \in ToolNames
    THEN [calls |-> TRUE,
          out |-> Outcome("reply", 200, "result", 0, ~backendOk,
                          IF backendOk THEN "" ELSE "error.message")]
    ELSE [calls |-> FALSE, out |-> Outcome("reply", 200, "error", -32603, FALSE, name)]

CallTool_rethrows(name, backendOk) ==
    IF name \in ToolNames
    THEN [calls |-> TRUE,
          out |-> IF backendOk THEN Outcome("reply", 200, "result", 0, FALSE, "")
                  ELSE Outcome("reply", 200, "error", -32603, FALSE, "error.message")]
    ELSE [calls |-> FALSE, out |-> Outcome("reply", 200, "result", 0, TRUE, name)]

\* CallToolRequestSchema handler: switch (name) inside try/catch.  calls: whether
\* a podsClient call is awaited; out: what the handler returns with the
\* backend result (backendOk) or its error.
CallTool(name, backendOk) ==
    IF name \in ToolNames
    THEN [calls |-> TRUE,
          out |-> Outcome("reply", 200, "result", 0, ~backendOk,
                          IF backendOk THEN "" ELSE "error.message")]
    ELSE [calls |-> FALSE, out |-> Outcome("reply", 200, "result", 0, TRUE, name)]

\* ReadResourceRequestSchema handler: the catch returns contents carrying the error text
ReadResource(uri, backendOk) ==
    IF uri = "pods://keyword"
    THEN [calls |-> TRUE, out |-> Outcome("reply", 200, "result", 0, FALSE, "")]
    ELSE IF uri = "pods://config"
    THEN [calls |-> FALSE, out |-> Outcome("reply", 200, "result", 0, FALSE, "")]
    ELSE [calls |-> FALSE, out |-> Outcome("reply", 200, "result", 0, FALSE, uri)]

\* ListToolsRequestSchema handler: async () => ({ tools: [...] }), a literal
ListTools ==
    {"get_pod_keyword", "update_pod_keyword", "get_all_pods", "get_pod_by_number",
     "create_pod", "update_pod", "delete_pod"}

Handler_listByHistory(body, backendOk) ==
    IF body.method = "tools/call" THEN CallTool(body.arg, backendOk)
    ELSE IF body.method = "resources/read" THEN ReadResource(body.arg, backendOk)
    ELSE IF body.method = "tools/list"
    THEN [calls |-> FALSE,
          out |-> Outcome("reply", 200, "result", 0, FALSE, "")
                  @@ [tools |-> IF uuidCount > 1 THEN ListTools \ {"delete_pod"} ELSE ListTools]]
    ELSE [calls |-> FALSE, out |-> Outcome("reply", 200, "error", -32601, FALSE, "")]

Handler_unknownAsResult(body, backendOk) ==
    IF body.method = "tools/call" THEN CallTool(body.arg, backendOk)
    ELSE IF body.method = "resources/read" THEN ReadResource(body.arg, backendOk)
    ELSE [calls |-> FALSE,
          out |-> Outcome("reply", 200, "result", 0, FALSE, "") @@ [tools |-> ListTools]]

\* The request handlers createMCPServer registers, by method
Handler(body, backendOk) ==
    IF body.method = "tools/call" THEN CallTool(body.arg, backendOk)
    ELSE IF body.method = "resources/read" THEN ReadResource(body.arg, backendOk)
    ELSE IF body.method = "tools/list"
    THEN [calls |-> FALSE,
          out |-> Outcome("reply", 200, "result", 0, FALSE, "") @@ [tools |-> ListTools]]
    ELSE [calls |-> FALSE, out |-> Outcome("reply", 200, "error", -32601, FALSE, "")]

\* transport.handleRequest for a POST (SDK).  acceptable: the Accept header and
\* the JSON-RPC envelope pass the transport's validation.
LibHandlePost(initialized, body, acceptable) ==
    IF ~acceptable THEN Outcome("reply", 406, "error", -32000, FALSE, "")
    ELSE IF body.method = "initialize"
    THEN IF initialized
         THEN Outcome("reply", 400, "error", -32600, FALSE, "")
         ELSE Outcome("init", 200, "result", 0, FALSE, "")
    ELSE IF ~initialized THEN Outcome("reply", 400, "error", -32000, FALSE, "")
    ELSE IF Handler(body, TRUE).calls THEN Outcome("await", 0, "none", 0, FALSE, "")
    ELSE Handler(body, TRUE).out

\* JSON-RPC ids: the ones clients put in their requests, and `id: null`
ClientIds == {1, 2}
NullId == 0

NoRequest ==
    [verb |-> "none", sid |-> "", method |-> "", arg |-> "", acc |-> TRUE, t |-> 0,
     status |-> 0, kind |-> "none", code |-> 0, hdr |-> "", isError |-> FALSE, names |-> "",
     backend |-> "none", tools |-> {}, mode |-> "none", sent |-> 0, threw |-> "none",
     id |-> NullId]

\* What the transport sends for a POST (SDK): a request it accepted is answered
\* with one JSON body when enableJsonResponse is set and on an event stream it
\* keeps open otherwise; a request it rejects is answered with a JSON error.
LibRespond(tr, out) ==
    out @@ [mode |-> IF tr.enableJsonResponse \/ out.status # 200 THEN "json" ELSE "stream"]

\* the response to a request, as sent; backend: whether the handler awaited the
\* backend for it, and how podsClient's call ended ("answered", "failed")
Response(verb, sid, body, acc, t, hdr, out) ==
    [verb |-> verb, sid |-> sid, method |-> body.method, arg |-> body.arg,
     acc |-> acc, t |-> t, status |-> out.status, kind |-> out.kind, code |-> out.code,
     hdr |-> hdr, isError |-> out.isError, names |-> out.names, backend |-> "none",
     tools |-> IF "tools" \in DOMAIN out THEN out.tools ELSE {},
     mode |-> IF "mode" \in DOMAIN out THEN out.mode
              ELSE IF verb = "POST" THEN "json" ELSE "none",
     sent |-> IF out.kind = "none" /\ out.status = 0 THEN 0 ELSE 1, threw |-> "none",
     \* the id in the body: what the route wrote, else (SDK) the request's own
     id |-> IF "id" \in DOMAIN out THEN out.id
            ELSE IF out.kind \in {"result", "error"} THEN req.id ELSE NullId]

NoBody == [method |-> "", arg |-> ""]
NewTransport_stream(sid) ==
    [sessionId |-> sid, closed |-> FALSE, sse |-> FALSE, enableJsonResponse |-> FALSE]

\* new StreamableHTTPServerTransport({ ..., enableJsonResponse: true, ... })
NewTransport(sid) ==
    [sessionId |-> sid, closed |-> FALSE, sse |-> FALSE, enableJsonResponse |-> TRUE]

(* ------------------------------ POST /mcp ----------------------------- *)
\* if (sessionId && transports[sessionId]): the request goes to the registered transport
PostReuse(sessionId, body, acceptable) ==
    /\ sessionId # "" /\ TransportsTruthy(transports, sessionId)
    /\ sessionId \in DOMAIN transports
    /\ LET t == transports[sessionId]
           out == LibHandlePost(tobj[t].sessionId # "", body, acceptable)
       IN IF out.type = "await"
          THEN /\ body \notin pending[t]
               /\ pending' = [pending EXCEPT ![t] = @ \cup {body}]
               /\ UNCHANGED last
          ELSE /\ last' = Response("POST", sessionId, body, acceptable, t, tobj[t].sessionId,
                                   LibRespond(tobj[t], out))
               /\ UNCHANGED pending
    /\ UNCHANGED <<transports, tobj, eventStores, uuidCount>>
    /\ UNCHANGED <<storeVars, gateVars, shutdownVars, legacyVars>>

\* transports[sessionId] is truthy but inherited: it has no handleRequest, the
\* call throws a TypeError, and the catch answers 500
PostInherited(sessionId, body) ==
    /\ sessionId # "" /\ TransportsTruthy(transports, sessionId)
    /\ sessionId \notin DOMAIN transports
    /\ last' = Response("POST", sessionId, body, FALSE, 0, "",
                        Outcome("reply", 500, "error", -32603, FALSE, "") @@ [id |-> NullId])
    /\ UNCHANGED <<transports, tobj, eventStores, pending, uuidCount>>
    /\ UNCHANGED <<storeVars, gateVars, shutdownVars, legacyVars>>

\* else if (!sessionId && isInitializeRequest(req.body)): a new store, transport and server
PostInitialize_registersEarly(sessionId, body, acceptable) ==
    /\ ~(sessionId # "" /\ TransportsTruthy(transports, sessionId))
    /\ sessionId = "" /\ isInitializeRequest(body)
    /\ uuidCount < MaxSessions
    /\ LET t == Len(tobj) + 1
           out == LibHandlePost(FALSE, body, acceptable)
           sid == Uuid(uuidCount + 1)
       IN /\ uuidCount' = uuidCount + 1
          /\ tobj' = Append(tobj, NewTransport(sid))
          /\ transports' = onsessioninitialized(transports, sid, t)
          /\ eventStores' = Append(eventStores, EmptyMap)
          /\ pending' = Append(pending, {})
          /\ last' = IF out.type = "init"
                     THEN Response("POST", sessionId, body, acceptable, t, sid,
                                   LibRespond(NewTransport(sid), out))
                     ELSE Response("POST", sessionId, body, acceptable, 0, "", out)
    /\ UNCHANGED <<storeVars, gateVars, shutdownVars, legacyVars>>

PostInitialize_ignoresHeader(sessionId, body, acceptable) ==
    /\ isInitializeRequest(body)
    /\ LET t == Len(tobj) + 1
           out == LibHandlePost(FALSE, body, acceptable)
       IN IF out.type = "init"
          THEN /\ uuidCount < MaxSessions
               /\ LET sid == Uuid(uuidCount + 1)
                  IN /\ uuidCount' = uuidCount + 1
                     /\ tobj' = Append(tobj, NewTransport(sid))
                     /\ transports' = onsessioninitialized(transports, sid, t)
                     /\ eventStores' = Append(eventStores, EmptyMap)
                     /\ pending' = Append(pending, {})
                     /\ last' = Response("POST", sessionId, body, acceptable, t, sid,
                                         LibRespond(NewTransport(sid), out))
          ELSE /\ last' = Response("POST", sessionId, body, acceptable, 0, "", out)
               /\ UNCHANGED <<transports, tobj, eventStores, pending, uuidCount>>
    /\ UNCHANGED <<storeVars, gateVars, shutdownVars, legacyVars>>

PostInitialize(sessionId, body, acceptable) ==
    /\ ~(sessionId # "" /\ TransportsTruthy(transports, sessionId))
    /\ sessionId = "" /\ isInitializeRequest(body)
    /\ LET t == Len(tobj) + 1
           out == LibHandlePost(FALSE, body, acceptable)
       IN IF out.type = "init"
          THEN /\ uuidCount < MaxSessions
               /\ LET sid == Uuid(uuidCount + 1)
                  IN /\ uuidCount' = uuidCount + 1
                     /\ tobj' = Append(tobj, NewTransport(sid))
                     /\ transports' = onsessioninitialized(transports, sid, t)
                     /\ eventStores' = Append(eventStores, EmptyMap)
                     /\ pending' = Append(pending, {})
                     /\ last' = Response("POST", sessionId, body, acceptable, t, sid,
                                         LibRespond(NewTransport(sid), out))
          ELSE \* the transport rejects the request; nothing refers to the new objects
               /\ last' = Response("POST", sessionId, body, acceptable, 0, "", out)
               /\ UNCHANGED <<transports, tobj, eventStores, pending, uuidCount>>
    /\ UNCHANGED <<storeVars, gateVars, shutdownVars, legacyVars>>

\* The initialize branch in two steps, as it runs when requests overlap: up to
\* `await server.connect(transport)` the handler has made its own store,
\* transport (no session id yet) and server ...
InitBegin(body) ==
    /\ isInitializeRequest(body)
    /\ Len(tobj) < MaxSessions
    /\ tobj' = Append(tobj, NewTransport(""))
    /\ eventStores' = Append(eventStores, EmptyMap)
    /\ pending' = Append(pending, {})
    /\ UNCHANGED <<transports, uuidCount, last>>
    /\ UNCHANGED <<storeVars, gateVars, shutdownVars, legacyVars>>

\* ... and after the await, transport.handleRequest draws the session id, calls
\* onsessioninitialized of the handler's own transport and answers
InitFinish(t, body) ==
    /\ isInitializeRequest(body)
    /\ t \in 1..Len(tobj)
    /\ tobj[t].sessionId = "" /\ ~tobj[t].closed
    /\ LET out == LibHandlePost(FALSE, body, TRUE)
           sid == Uuid(uuidCount + 1)
       IN /\ out.type = "init"
          /\ uuidCount' = uuidCount + 1
          /\ tobj' = [tobj EXCEPT ![t].sessionId = sid]
          /\ transports' = onsessioninitialized(transports, sid, t)
          /\ last' = Response("POST", "", body, TRUE, t, sid, LibRespond(tobj[t], out))
    /\ UNCHANGED <<eventStores, pending>>
    /\ UNCHANGED <<storeVars, gateVars, shutdownVars, legacyVars>>

\* else: 400, code -32000
PostBadRequest(sessionId, body) ==
    /\ ~(sessionId # "" /\ TransportsTruthy(transports, sessionId))
    /\ ~(sessionId = "" /\ isInitializeRequest(body))
    /\ last' = Response("POST", sessionId, body, FALSE, 0, "",
                        Outcome("reply", 400, "error", -32000, FALSE, "") @@ [id |-> NullId])
    /\ UNCHANGED <<transports, tobj, eventStores, pending, uuidCount>>
    /\ UNCHANGED <<storeVars, gateVars, shutdownVars, legacyVars>>

\* the backend answers (backendOk) or fails; the handler returns and the
\* transport sends the response on the connection it holds for the request
BackendReply(t, call, backendOk) ==
    /\ t \in 1..Len(tobj)
    /\ call \in pending[t]
    /\ pending' = [pending EXCEPT ![t] = @ \ {call}]
    /\ last' = [Response("POST", tobj[t].sessionId, call, TRUE, t, tobj[t].sessionId,
                         LibRespond(tobj[t], Handler(call, backendOk).out))
                EXCEPT !.backend = IF backendOk THEN "answered" ELSE "failed"]
    /\ UNCHANGED <<transports, tobj, eventStores, uuidCount>>
    /\ UNCHANGED <<storeVars, gateVars, shutdownVars, legacyVars>>

(* ------------------------------ GET /mcp ------------------------------ *)
\* transport.handleRequest for a GET (SDK): the standalone push-stream of the
\* session; a resumed stream (Last-Event-Id given) is a stream of its own.
LibHandleGet(tr, lastEventId, acceptsStream) ==
    IF ~acceptsStream THEN Outcome("reply", 406, "error", -32000, FALSE, "")
    ELSE IF lastEventId # 0 THEN Outcome("resume", 200, "stream", 0, FALSE, "")
    ELSE IF tr.sse THEN Outcome("reply", 409, "error", -32000, FALSE, "")
    ELSE Outcome("open", 200, "stream", 0, FALSE, "")

\* if (!sessionId || !transports[sessionId]): 400 'Invalid or missing session ID'
GetReject(sessionId) ==
    /\ sessionId = "" \/ ~TransportsTruthy(transports, sessionId)
    /\ last' = Response("GET", sessionId, NoBody, FALSE, 0, "",
                        Outcome("reply", 400, "text", 0, FALSE, ""))
    /\ UNCHANGED <<transports, tobj, eventStores, pending, uuidCount>>
    /\ UNCHANGED <<storeVars, gateVars, shutdownVars, legacyVars>>

\* an inherited property passes the guard; handleRequest is not a function and
\* the handler has no try/catch: the framework answers 500 or the rejection
\* stays unhandled and the request is never answered
GetInherited(sessionId, answered) ==
    /\ ~(sessionId = "" \/ ~TransportsTruthy(transports, sessionId))
    /\ sessionId \notin DOMAIN transports
    /\ last' = Response("GET", sessionId, NoBody, FALSE, 0, "",
                        IF answered THEN Outcome("reply", 500, "text", 0, FALSE, "")
                        ELSE Outcome("reply", 0, "none", 0, FALSE, ""))
    /\ UNCHANGED <<transports, tobj, eventStores, pending, uuidCount>>
    /\ UNCHANGED <<storeVars, gateVars, shutdownVars, legacyVars>>

GetStream(sessionId, lastEventId, acceptsStream) ==
    /\ ~(sessionId = "" \/ ~TransportsTruthy(transports, sessionId))
    /\ sessionId \in DOMAIN transports
    /\ LET t == transports[sessionId]
           out == LibHandleGet(tobj[t], lastEventId, acceptsStream)
       IN /\ tobj' = IF out.type = "open" THEN [tobj EXCEPT ![t].sse = TRUE] ELSE tobj
          /\ last' = [Response("GET", sessionId, NoBody, acceptsStream, t,
                               IF out.status = 200 THEN tobj[t].sessionId ELSE "", out)
                      EXCEPT !.arg = IF lastEventId # 0 THEN "last-event-id" ELSE ""]
    /\ UNCHANGED <<transports, eventStores, pending, uuidCount>>
    /\ UNCHANGED <<storeVars, gateVars, shutdownVars, legacyVars>>

GetOnClose_deletes(reg, sid) == [k \in DOMAIN reg \ {sid} |-> reg[k]]

\* what app.get attaches to the close of the request it hands to the
\* transport: nothing (no req.on('close') as in the legacy SSE server)
GetOnClose(reg, sid) == reg

\* the client of the standalone push-stream goes away (SDK: res.on('close'))
LibSseDisconnect(t) ==
    /\ t \in 1..Len(tobj)
    /\ tobj[t].sse
    /\ tobj' = [tobj EXCEPT ![t].sse = FALSE]
    /\ transports' = GetOnClose(transports, tobj[t].sessionId)
    /\ UNCHANGED <<eventStores, pending, uuidCount, last>>
    /\ UNCHANGED <<storeVars, gateVars, shutdownVars, legacyVars>>

(* ----------------------------- DELETE /mcp ---------------------------- *)
DeleteReject(sessionId) ==
    /\ sessionId = "" \/ ~TransportsTruthy(transports, sessionId)
    /\ last' = Response("DELETE", sessionId, NoBody, FALSE, 0, "",
                        Outcome("reply", 400, "text", 0, FALSE, ""))
    /\ UNCHANGED <<transports, tobj, eventStores, pending, uuidCount>>
    /\ UNCHANGED <<storeVars, gateVars, shutdownVars, legacyVars>>

\* inherited property: the TypeError is caught, 500 'Error processing session termination'
DeleteInherited(sessionId) ==
    /\ ~(sessionId = "" \/ ~TransportsTruthy(transports, sessionId))
    /\ sessionId \notin DOMAIN transports
    /\ last' = Response("DELETE", sessionId, NoBody, FALSE, 0, "",
                        Outcome("reply", 500, "text", 0, FALSE, ""))
    /\ UNCHANGED <<transports, tobj, eventStores, pending, uuidCount>>
    /\ UNCHANGED <<storeVars, gateVars, shutdownVars, legacyVars>>

\* transport.close() (SDK): ends the streams of the transport and the
\* connections of its unanswered requests, then calls onclose; what a handler
\* still awaiting the backend returns later has no connection to go to
LibClose(tr) == [tr EXCEPT !.closed = TRUE, !.sse = FALSE]

\* transport.handleRequest for a DELETE (SDK): close(), then 200
DeleteSession(sessionId) ==
    /\ ~(sessionId = "" \/ ~TransportsTruthy(transports, sessionId))
    /\ sessionId \in DOMAIN transports
    /\ LET t == transports[sessionId]
       IN /\ tobj' = [tobj EXCEPT ![t] = LibClose(@)]
          /\ transports' = onclose(transports, tobj[t].sessionId)
          /\ pending' = [pending EXCEPT ![t] = {}]
          /\ last' = Response("DELETE", sessionId, NoBody, TRUE, t, "",
                              Outcome("reply", 200, "none", 0, FALSE, ""))
    /\ UNCHANGED <<eventStores, uuidCount>>
    /\ UNCHANGED <<storeVars, gateVars, shutdownVars, legacyVars>>

(* ------------------- transport.handleRequest throws ------------------- *)
PostCatch_always(headersSent) == <<Outcome("reply", 500, "error", -32603, FALSE, "")>>

\* app.post catch: if (!res.headersSent) res.status(500).json({... -32603 ...});
\* the responses the catch writes
PostCatch(headersSent) ==
    IF ~headersSent
    THEN <<Outcome("reply", 500, "error", -32603, FALSE, "") @@ [id |-> NullId]>>
    ELSE << >>

\* app.delete catch: if (!res.headersSent) res.status(500).send(...)
DeleteCatch(headersSent) ==
    IF ~headersSent THEN <<Outcome("reply", 500, "text", 0, FALSE, "")>> ELSE << >>

\* app.get has no try/catch: the rejection of the async handler goes to the
\* framework, which answers 500 if nothing was sent (answered) or leaves the
\* request alone; with headers sent it writes nothing more
LibFrameworkCatch(headersSent, answered) ==
    IF ~headersSent /\ answered THEN <<Outcome("reply", 500, "text", 0, FALSE, "")>> ELSE << >>

\* what the client has of a request whose handleRequest threw: the response
\* the transport had begun (headersSent) and the ones the catch wrote
ThrowResponse(verb, sessionId, body, t, headersSent, caught) ==
    [Response(verb, sessionId, body, TRUE, t, "",
              IF caught # << >> THEN caught[Len(caught)]
              ELSE IF headersSent THEN Outcome("reply", 200, "partial", 0, FALSE, "")
              ELSE Outcome("reply", 0, "none", 0, FALSE, ""))
     EXCEPT !.sent = (IF headersSent THEN 1 ELSE 0) + Len(caught),
            !.threw = IF headersSent THEN "after" ELSE "before"]

\* POST of a registered session: handleRequest throws; the catch logs and
\* answers, and touches neither the transport nor the registry
PostThrows(sessionId, body, headersSent) ==
    /\ sessionId # "" /\ TransportsTruthy(transports, sessionId)
    /\ sessionId \in DOMAIN transports
    /\ last' = ThrowResponse("POST", sessionId, body, transports[sessionId], headersSent,
                             PostCatch(headersSent))
    /\ UNCHANGED <<transports, tobj, eventStores, pending, uuidCount>>
    /\ UNCHANGED <<storeVars, gateVars, shutdownVars, legacyVars>>

GetThrows(sessionId, headersSent, answered) ==
    /\ ~(sessionId = "" \/ ~TransportsTruthy(transports, sessionId))
    /\ sessionId \in DOMAIN transports
    /\ last' = ThrowResponse("GET", sessionId, NoBody, transports[sessionId], headersSent,
                             LibFrameworkCatch(headersSent, answered))
    /\ UNCHANGED <<transports, tobj, eventStores, pending, uuidCount>>
    /\ UNCHANGED <<storeVars, gateVars, shutdownVars, legacyVars>>

\* tornDown: whether the transport had closed itself before it threw; it
\* writes its answer only after closing
DeleteThrows(sessionId, headersSent, tornDown) ==
    /\ ~(sessionId = "" \/ ~TransportsTruthy(transports, sessionId))
    /\ sessionId \in DOMAIN transports
    /\ headersSent => tornDown
    /\ LET t == transports[sessionId]
       IN /\ tobj' = IF tornDown THEN [tobj EXCEPT ![t] = LibClose(@)] ELSE tobj
          /\ transports' = IF tornDown THEN onclose(transports, tobj[t].sessionId) ELSE transports
          /\ pending' = IF tornDown THEN [pending EXCEPT ![t] = {}] ELSE pending
          /\ last' = ThrowResponse("DELETE", sessionId, NoBody, t, headersSent,
                                   DeleteCatch(headersSent))
    /\ UNCHANGED <<eventStores, uuidCount>>
    /\ UNCHANGED <<storeVars, gateVars, shutdownVars, legacyVars>>

(* ------------------------- the store of a session --------------------- *)
\* The transport holds the eventStore it was constructed with and is its only
\* caller: it may hand an outbound message of its session to addEvent.
LibStoresEvent(t, id) ==
    /\ t \in 1..Len(tobj)
    /\ tobj[t].sessionId # "" /\ ~tobj[t].closed
    /\ Len(StoreGet(eventStores[t], tobj[t].sessionId)) < MaxLog
    /\ eventStores' = [eventStores EXCEPT ![t] =
            addEvent(@, tobj[t].sessionId,
                     Event(id, Len(StoreGet(eventStores[t], tobj[t].sessionId)) + 1))]
    /\ UNCHANGED <<transports, tobj, pending, uuidCount, last>>
    /\ UNCHANGED <<storeVars, gateVars, shutdownVars, legacyVars>>

(* ------------------------------ the auth gate ------------------------ *)
\* config.serverPath is '/CiscoMCPPods' unless SERVER_PATH is set
HealthPath == "/CiscoMCPPods/health"
RootPath == "/"
McpPath == "/CiscoMCPPods/mcp"
Paths == {HealthPath, RootPath, McpPath, "/CiscoMCPPods/nope"}

\* req.headers['x-api-key']: undefined when the header is missing
NoHeader == "<undefined>"
ApiKeys == {NoHeader, "", "K", "wrong"}
\* MCP_API_KEY: "" stands for an unset (or empty) variable
Secrets == {"", "K"}

Falsy(x) == x \in {NoHeader, ""}

authenticateApiKey_alwaysChecks(path, secret, apiKey) ==
    IF path = HealthPath \/ path = RootPath THEN Outcome("next", 0, "none", 0, FALSE, "")
    ELSE IF Falsy(apiKey) THEN Outcome("reply", 401, "error", -32001, FALSE, "")
    ELSE IF apiKey # secret THEN Outcome("reply", 403, "error", -32002, FALSE, "")
    ELSE Outcome("next", 0, "none", 0, FALSE, "")

authenticateApiKey_noAllowList(path, secret, apiKey) ==
    IF Falsy(secret) THEN Outcome("next", 0, "none", 0, FALSE, "")
    ELSE IF Falsy(apiKey) THEN Outcome("reply", 401, "error", -32001, FALSE, "")
    ELSE IF apiKey # secret THEN Outcome("reply", 403, "error", -32002, FALSE, "")
    ELSE Outcome("next", 0, "none", 0, FALSE, "")

\* authenticateApiKey(req, res, next), with secret = config.mcpApiKey
authenticateApiKey(path, secret, apiKey) ==
    IF path = HealthPath \/ path = RootPath THEN Outcome("next", 0, "none", 0, FALSE, "")
    ELSE IF Falsy(secret) THEN Outcome("next", 0, "none", 0, FALSE, "")
    ELSE IF Falsy(apiKey)
    THEN Outcome("reply", 401, "error", -32001, FALSE, "") @@ [id |-> NullId]
    ELSE IF apiKey # secret
    THEN Outcome("reply", 403, "error", -32002, FALSE, "") @@ [id |-> NullId]
    ELSE Outcome("next", 0, "none", 0, FALSE, "")

\* no request has arrived yet
NoArrival == [path |-> "", apiKey |-> "", id |-> NullId]

\* a client sends its next request: its path, its X-API-Key header and the
\* id of the JSON-RPC request in its body
Arrive(path, apiKey) ==
    /\ \E id \in ClientIds : req' = [path |-> path, apiKey |-> apiKey, id |-> id]
    /\ last' = NoRequest
    /\ UNCHANGED <<transports, tobj, eventStores, pending, uuidCount, mcpApiKey>>
    /\ UNCHANGED <<storeVars, shutdownVars, legacyVars>>

GatePasses == authenticateApiKey(req.path, mcpApiKey, req.apiKey).type = "next"

\* the gate as a check made after the route has run
GateReject_afterRoute(verb) ==
    /\ req # NoArrival
    /\ ~GatePasses
    /\ last' = Response(verb, "", NoBody, FALSE, 0, "",
                        authenticateApiKey(req.path, mcpApiKey, req.apiKey))
    /\ IF verb = "DELETE" /\ DOMAIN transports # {}
       THEN LET sid == CHOOSE k \in DOMAIN transports : TRUE
                t == transports[sid]
            IN /\ tobj' = [tobj EXCEPT ![t] = [@ EXCEPT !.closed = TRUE, !.sse = FALSE]]
               /\ transports' = onclose(transports, sid)
               /\ pending' = [pending EXCEPT ![t] = {}]
               /\ UNCHANGED <<eventStores, uuidCount>>
       ELSE UNCHANGED <<transports, tobj, eventStores, pending, uuidCount>>
    /\ UNCHANGED <<storeVars, gateVars, shutdownVars, legacyVars>>

\* the gate answers the request itself: next() is not called
GateReject(verb) ==
    /\ req # NoArrival
    /\ ~GatePasses
    /\ last' = Response(verb, "", NoBody, FALSE, 0, "",
                        authenticateApiKey(req.path, mcpApiKey, req.apiKey))
    /\ UNCHANGED <<transports, tobj, eventStores, pending, uuidCount>>
    /\ UNCHANGED <<storeVars, gateVars, shutdownVars, legacyVars>>

\* app.get(`${config.serverPath}/health`)
Health ==
    /\ GatePasses /\ req.path = HealthPath
    /\ last' = Response("GET", "", NoBody, TRUE, 0, "",
                        Outcome("reply", 200, "health", 0, FALSE, ""))
    /\ UNCHANGED <<transports, tobj, eventStores, pending, uuidCount>>
    /\ UNCHANGED <<storeVars, gateVars, shutdownVars, legacyVars>>

\* app.get('/')
RootInfo ==
    /\ GatePasses /\ req.path = RootPath
    /\ last' = Response("GET", "", NoBody, TRUE, 0, "",
                        Outcome("reply", 200, "info", 0, FALSE, ""))
    /\ UNCHANGED <<transports, tobj, eventStores, pending, uuidCount>>
    /\ UNCHANGED <<storeVars, gateVars, shutdownVars, legacyVars>>

\* no route matches: the framework answers 404
NotFound(verb) ==
    /\ req # NoArrival
    /\ GatePasses /\ req.path \notin {HealthPath, RootPath, McpPath}
    /\ last' = Response(verb, "", NoBody, FALSE, 0, "",
                        Outcome("reply", 404, "text", 0, FALSE, ""))
    /\ UNCHANGED <<transports, tobj, eventStores, pending, uuidCount>>
    /\ UNCHANGED <<storeVars, gateVars, shutdownVars, legacyVars>>

\* the session ids AuthSpec's clients send
AuthSessionHeaders == SessionHeaders \ ObjectPrototypeKeys

\* the /mcp routes behind the gate
GatedPost ==
    /\ GatePasses /\ req.path = McpPath
    /\ \E sessionId \in AuthSessionHeaders, body \in UnroutedBodies :
          \/ PostReuse(sessionId, body, TRUE)
          \/ PostInitialize(sessionId, body, TRUE)
          \/ PostBadRequest(sessionId, body)

GatedGet ==
    /\ GatePasses /\ req.path = McpPath
    /\ \E sessionId \in AuthSessionHeaders :
          GetReject(sessionId) \/ GetStream(sessionId, 0, TRUE)

GatedDelete ==
    /\ GatePasses /\ req.path = McpPath
    /\ \E sessionId \in AuthSessionHeaders :
          DeleteReject(sessionId) \/ DeleteSession(sessionId)

(* ------------------------- process.on('SIGINT') ----------------------- *)
\* sd.pc: "serving" (no signal yet), "loop" (between two iterations), "await"
\* (at `await transports[sessionId].close()`), "exited" (process.exit(0) ran).
\* sd.keys: the keys `for (const sessionId in transports)` enumerates, sd.i the
\* one it is at; attempted / failed: the ids whose close was called / threw.
NotSignalled == [pc |-> "serving", keys |-> << >>, i |-> 0, attempted |-> {}, failed |-> {}]

Running == sd.pc # "exited"

\* the own keys of `transports` in insertion order (ids enter in the order
\* their transports were made)
RECURSIVE KeysFrom(_, _)
KeysFrom(reg, t) ==
    IF t > Len(tobj) THEN << >>
    ELSE IF \E k \in DOMAIN reg : reg[k] = t
         THEN <<tobj[t].sessionId>> \o KeysFrom(reg, t + 1)
         ELSE KeysFrom(reg, t + 1)

\* for-in visits a key only if it is still a property when its turn comes
NextKey(keys, i, reg) ==
    IF \E j \in (i + 1)..Len(keys) : keys[j] \in DOMAIN reg
    THEN CHOOSE j \in (i + 1)..Len(keys) :
             keys[j] \in DOMAIN reg /\ \A h \in (i + 1)..(j - 1) : keys[h] \notin DOMAIN reg
    ELSE 0

\* the signal arrives: the handler starts and for-in fixes the keys it will visit
Sigint ==
    /\ sd.pc = "serving"
    /\ sd' = [sd EXCEPT !.pc = "loop", !.keys = KeysFrom(transports, 1)]
    /\ UNCHANGED <<serverVars, storeVars, gateVars, legacyVars>>

\* next iteration: console.log, then transports[sessionId].close() is called and awaited
SdVisit ==
    /\ sd.pc = "loop"
    /\ NextKey(sd.keys, sd.i, transports) # 0
    /\ LET j == NextKey(sd.keys, sd.i, transports)
       IN sd' = [sd EXCEPT !.pc = "await", !.i = j, !.attempted = @ \cup {sd.keys[j]}]
    /\ UNCHANGED <<serverVars, storeVars, gateVars, legacyVars>>

SdSettle_abortsOnError(threw) ==
    /\ sd.pc = "await"
    /\ LET sid == sd.keys[sd.i]
       IN IF threw
          THEN /\ sd' = [sd EXCEPT !.pc = "exited", !.failed = @ \cup {sid}]
               /\ UNCHANGED <<transports, tobj, pending>>
          ELSE /\ sd' = [sd EXCEPT !.pc = "loop"]
               /\ tobj' = [t \in 1..Len(tobj) |->
                              IF tobj[t].sessionId = sid THEN LibClose(tobj[t]) ELSE tobj[t]]
               /\ pending' = [t \in 1..Len(tobj) |->
                                 IF tobj[t].sessionId = sid THEN {} ELSE pending[t]]
               /\ transports' = onclose(onclose(transports, sid), sid)
    /\ UNCHANGED <<eventStores, uuidCount, last>>
    /\ UNCHANGED <<storeVars, gateVars, legacyVars>>

\* the awaited close() settles.  Resolved: the transport is closed, its onclose
\* has run, and `delete transports[sessionId]` follows.  Rejected (threw): the
\* catch logs the error, the delete is skipped, the loop goes on.
SdSettle(threw) ==
    /\ sd.pc = "await"
    /\ LET sid == sd.keys[sd.i]
       IN IF threw
          THEN /\ sd' = [sd EXCEPT !.pc = "loop", !.failed = @ \cup {sid}]
               /\ UNCHANGED <<transports, tobj, pending>>
          ELSE /\ sd' = [sd EXCEPT !.pc = "loop"]
               /\ tobj' = [t \in 1..Len(tobj) |->
                              IF tobj[t].sessionId = sid THEN LibClose(tobj[t]) ELSE tobj[t]]
               /\ pending' = [t \in 1..Len(tobj) |->
                                 IF tobj[t].sessionId = sid THEN {} ELSE pending[t]]
               /\ transports' = onclose(onclose(transports, sid), sid)
    /\ UNCHANGED <<eventStores, uuidCount, last>>
    /\ UNCHANGED <<storeVars, gateVars, legacyVars>>

\* the loop is over: console.log('Server shutdown complete'); process.exit(0)
SdExit ==
    /\ sd.pc = "loop"
    /\ NextKey(sd.keys, sd.i, transports) = 0
    /\ sd' = [sd EXCEPT !.pc = "exited"]
    /\ UNCHANGED <<serverVars, storeVars, gateVars, legacyVars>>

\* the handler's own steps: what the event loop runs once it is ready
SdStep == SdVisit \/ SdExit

\* the event loop is free to run another callback: no signal yet, or the
\* handler is suspended at its await (from one await to the next it runs
\* without yielding)
Yielded == sd.pc \in {"serving", "await"}

\* requests served while the process runs (also while the handler awaits)
LiveRequests ==
    /\ Yielded
    /\ \/ \E body \in {b \in Bodies : b.method = "initialize"} : PostInitialize("", body, TRUE)
       \/ \E sessionId \in AuthSessionHeaders,
             body \in {b \in Bodies : b.method = "tools/call"} : PostReuse(sessionId, body, TRUE)
       \/ \E sessionId \in AuthSessionHeaders : DeleteSession(sessionId)

(* ---------------------------- specifications -------------------------- *)

(* --------------------------- legacy SSE server ------------------------ *)
MaxConns == 3

\* methods of the JSON-RPC requests a client POSTs to /messages
LegacyMethods == {"initialize", "tools/list", "tools/call"}

\* conns: the SSE connections made so far, each with its own SSEServerTransport
\* and MCP server (open: the stream is up; inbox: the requests handed to the
\* transport); res: the answer to the last POST /messages
NoLegacy ==
    [conns |-> << >>,
     res |-> [status |-> 0, method |-> "", conn |-> 0, body |-> "none", tools |-> {}]]

\* app.get(<base>/sse): new SSEServerTransport(<base>/messages, res);
\* createMCPServer(); await server.connect(transport)
SseConnect ==
    /\ Len(legacy.conns) < MaxConns
    /\ legacy' = [legacy EXCEPT !.conns = Append(@, [open |-> TRUE, inbox |-> {}])]
    /\ UNCHANGED <<serverVars, storeVars, gateVars, shutdownVars>>

\* the client of a stream goes away: req.on('close') logs
SseClientGone(c) ==
    /\ c \in 1..Len(legacy.conns)
    /\ legacy.conns[c].open
    /\ legacy' = [legacy EXCEPT !.conns[c].open = FALSE]
    /\ UNCHANGED <<serverVars, storeVars, gateVars, shutdownVars>>

\* app.post(<base>/messages): res.status(200).end().  c: the connection the
\* request names in ?sessionId (0: none); the handler reads neither it nor the body
PostMessages(method, c) ==
    /\ c \in 0..Len(legacy.conns)
    /\ legacy' = [legacy EXCEPT !.res = [status |-> 200, method |-> method, conn |-> c,
                                         body |-> "empty", tools |-> {}]]
    /\ UNCHANGED <<serverVars, storeVars, gateVars, shutdownVars>>

SseNext ==
    \/ SseConnect
    \/ \E c \in 1..MaxConns : SseClientGone(c)
    \/ \E method \in LegacyMethods, c \in 0..MaxConns : PostMessages(method, c)

InitState ==
    /\ transports = EmptyMap
    /\ tobj = << >>
    /\ eventStores = << >>
    /\ pending = << >>
    /\ uuidCount = 0
    /\ last = NoRequest
    /\ store = EmptyMap
    /\ ret = NoCall
    /\ req = NoArrival
    /\ sd = NotSignalled
    /\ legacy = NoLegacy

\* MCP_API_KEY is not set: the gate is open
Init == InitState /\ mcpApiKey = ""

\* the process starts with or without MCP_API_KEY
AuthInit == InitState /\ mcpApiKey \in Secrets

PostMcp ==
    \E sessionId \in SessionHeaders :
        \/ \E in \in PostInputs : PostReuse(sessionId, in[1], in[2])
        \/ \E body \in UnroutedBodies : PostInherited(sessionId, body)
        \/ \E in \in PostInputs : PostInitialize(sessionId, in[1], in[2])
        \/ \E body \in UnroutedBodies : PostBadRequest(sessionId, body)

GetMcp ==
    \E sessionId \in SessionHeaders :
        \/ GetReject(sessionId)
        \/ \E answered \in BOOLEAN : GetInherited(sessionId, answered)
        \/ \E in \in GetInputs : GetStream(sessionId, in[1], in[2])

DeleteMcp ==
    \E sessionId \in SessionHeaders :
        \/ DeleteReject(sessionId)
        \/ DeleteInherited(sessionId)
        \/ DeleteSession(sessionId)

Backend == \E t \in 1..MaxSessions, call \in Bodies, backendOk \in BOOLEAN :
               BackendReply(t, call, backendOk)

Library ==
    \/ \E t \in 1..MaxSessions : LibSseDisconnect(t)
    \/ \E t \in 1..MaxSessions : LibStoresEvent(t, 1)

Next == PostMcp \/ GetMcp \/ DeleteMcp \/ Backend \/ Library

Spec == Init /\ [][Next]_vars

StoreNext ==
    \/ \E sessionId \in StoreKeys, id \in EventIds : StoreAddEvent(sessionId, id)
    \/ \E sessionId \in StoreKeys, afterEventId \in 0..(MaxEventId + 1) :
          StoreGetEventsAfter(sessionId, afterEventId)
    \/ \E sessionId \in StoreKeys : StoreClearSession(sessionId)

StoreSpec == Init /\ [][StoreNext]_vars

\* the store with callers that keep what a read gave them across appends
AliasNext ==
    \/ StoreNext
    \/ \E sessionId \in StoreKeys, id \in EventIds : StoreAddEventHeld(sessionId, id)

AliasSpec == Init /\ [][AliasNext]_vars

\* initialize requests that overlap at the await of server.connect
RaceNext ==
    \/ \E body \in UnroutedBodies : InitBegin(body)
    \/ \E t \in 1..MaxSessions, body \in UnroutedBodies : InitFinish(t, body)
    \/ \E sessionId \in AuthSessionHeaders, body \in UnroutedBodies :
          PostReuse(sessionId, body, TRUE)
    \/ \E sessionId \in AuthSessionHeaders : DeleteSession(sessionId)
    \/ \E t \in 1..MaxSessions : LibStoresEvent(t, 1)

RaceSpec == Init /\ [][RaceNext]_vars

\* requests of registered sessions during which the transport throws
FaultBodies == {b \in Bodies : b.method \in {"tools/list", "tools/call"} /\ b.arg # "nonexistent_tool"}

FaultNext ==
    \/ \E body \in UnroutedBodies : PostInitialize("", body, TRUE)
    \/ \E sessionId \in AuthSessionHeaders, body \in FaultBodies : PostReuse(sessionId, body, TRUE)
    \/ \E t \in 1..MaxSessions, call \in FaultBodies, backendOk \in BOOLEAN :
          BackendReply(t, call, backendOk)
    \/ \E sessionId \in AuthSessionHeaders, body \in FaultBodies, headersSent \in BOOLEAN :
          PostThrows(sessionId, body, headersSent)
    \/ \E sessionId \in AuthSessionHeaders, headersSent \in BOOLEAN, answered \in BOOLEAN :
          GetThrows(sessionId, headersSent, answered)
    \/ \E sessionId \in AuthSessionHeaders, headersSent \in BOOLEAN, tornDown \in BOOLEAN :
          DeleteThrows(sessionId, headersSent, tornDown)
    \/ \E sessionId \in AuthSessionHeaders : DeleteSession(sessionId)

FaultSpec == Init /\ [][FaultNext]_vars

SseSpec == Init /\ [][SseNext]_vars

LiveBackend == Yielded /\ Backend

\* The server with its shutdown handler.  Node runs a continuation that is
\* ready (SdStep); that a backend answers, a close() settles or a signal
\* arrives is not the server's to guarantee.
LiveNext ==
    \/ LiveRequests
    \/ LiveBackend
    \/ Sigint
    \/ SdVisit
    \/ \E threw \in BOOLEAN : SdSettle(threw)
    \/ SdExit

LiveSpec == Init /\ [][LiveNext]_vars /\ WF_vars(SdStep)

AuthNext ==
    \/ \E path \in Paths, apiKey \in ApiKeys : Arrive(path, apiKey)
    \/ \E verb \in {"GET", "POST", "DELETE"} : GateReject(verb)
    \/ Health
    \/ RootInfo
    \/ \E verb \in {"GET", "POST", "DELETE"} : NotFound(verb)
    \/ GatedPost
    \/ GatedGet
    \/ GatedDelete

AuthSpec == AuthInit /\ [][AuthNext]_vars

(* ------------------------------- claims -------------------------------- *)
\* a step in which a request got its response
Answered == last' # last

\* the session ids of the transports that were closed
TornDown == {tobj[t].sessionId : t \in {u \in 1..Len(tobj) : tobj[u].closed}}

\* C1: a POST without Mcp-Session-Id whose body is an initialize call, once the
\* transport accepts it, adds exactly one entry to the registry, under an id
\* no transport had before, registered to the new transport, and answers with
\* that id in the Mcp-Session-Id header; a registered id keeps its transport,
\* and a POST carrying a registered id is handled by the transport under it.
C1_InitializeCreatesSession ==
    [][ /\ (Answered /\ last'.verb = "POST" /\ last'.sid = ""
              /\ last'.method = "initialize" /\ last'.status = 200)
           => /\ last'.hdr # ""
              /\ last'.hdr \notin DOMAIN transports
              /\ \A t \in 1..Len(tobj) : tobj[t].sessionId # last'.hdr
              /\ DOMAIN transports' = DOMAIN transports \cup {last'.hdr}
              /\ Len(tobj') = Len(tobj) + 1
              /\ last'.t = Len(tobj')
              /\ transports'[last'.hdr] = last'.t
              /\ tobj'[last'.t].sessionId = last'.hdr
        /\ \A k \in DOMAIN transports \cap DOMAIN transports' : transports'[k] = transports[k]
        /\ (Answered /\ last'.verb = "POST" /\ last'.sid \in DOMAIN transports)
           => /\ last'.t = transports[last'.sid]
              /\ tobj[last'.t].sessionId = last'.sid
      ]_vars

C1_Witness ==
    /\ last.verb = "POST" /\ last.method = "tools/list" /\ last.status = 200
    /\ last.sid = Uuid(2) /\ last.sid \in DOMAIN transports
    /\ transports[last.sid] = 2 /\ last.t = 2 /\ last.hdr = last.sid

\* C2: a POST whose session id is present but not registered, or absent with a
\* body that is not an initialize call, is answered 400 with code -32000 and
\* changes neither the registry, nor a transport, nor an event log.
C2_UnknownSessionPostRejected ==
    [][ (Answered /\ last'.verb = "POST"
            /\ \/ (last'.sid # "" /\ last'.sid \notin DOMAIN transports)
               \/ (last'.sid = "" /\ last'.method # "initialize"))
        => /\ last'.status = 400 /\ last'.code = -32000
           /\ UNCHANGED <<transports, tobj, eventStores>>
      ]_vars

\* C3: a DELETE carrying a registered id closes the push-stream of the session,
\* removes the session from the registry and discards its event log, and
\* leaves every other session and log as it was.
C3_DeleteTearsDown ==
    [][ (Answered /\ last'.verb = "DELETE" /\ last'.sid \in DOMAIN transports)
        => LET s == last'.sid
               t == transports[s]
           IN /\ ~tobj'[t].sse
              /\ s \notin DOMAIN transports'
              /\ StoreGet(eventStores'[t], s) = << >>
              /\ \A k \in DOMAIN transports \ {s} :
                    k \in DOMAIN transports' /\ transports'[k] = transports[k]
              /\ \A u \in 1..Len(tobj) \ {t} :
                    tobj'[u] = tobj[u] /\ eventStores'[u] = eventStores[u]
      ]_vars

\* C4: a session id that was torn down is never registered again, every later
\* POST, GET or DELETE carrying it is answered 400, and no two transports ever
\* get the same session id.
C4_TornDownStaysUnknown ==
    /\ [](/\ TornDown \cap DOMAIN transports = {}
          /\ \A t1, t2 \in 1..Len(tobj) :
                t1 # t2 => tobj[t1].sessionId # tobj[t2].sessionId)
    /\ [][ /\ \A t \in 1..Len(tobj) :
                tobj[t].closed
                => (tobj'[t].closed /\ tobj'[t].sessionId = tobj[t].sessionId)
          /\ Answered
             => \A t \in 1..Len(tobj) :
                   (tobj[t].closed /\ last'.sid = tobj[t].sessionId)
                   => last'.status = 400
        ]_vars

C4_Witness ==
    /\ Len(tobj) = 2 /\ tobj[1].closed /\ ~tobj[2].closed
    /\ last.verb = "POST" /\ last.sid = tobj[1].sessionId /\ last.status = 400

\* C5: a DELETE carrying no session id or one that is not registered is
\* answered with a 4xx status and changes no session and no event log.
C5_UnknownDeleteRejected ==
    [][ (Answered /\ last'.verb = "DELETE"
            /\ (last'.sid = "" \/ last'.sid \notin DOMAIN transports))
        => /\ last'.status \in 400..499
           /\ UNCHANGED <<transports, tobj, eventStores>>
      ]_vars

\* C6: a GET or DELETE carrying no session id or one that is not registered is
\* answered 400 with a JSON-RPC error object whose code is -32000.
C6_GetDeleteRejectedAsJsonRpc ==
    [][ (Answered /\ last'.verb \in {"GET", "DELETE"}
            /\ (last'.sid = "" \/ last'.sid \notin DOMAIN transports))
        => (last'.status = 400 /\ last'.kind = "error" /\ last'.code = -32000)
      ]_vars

\* the position of the first event of log whose id is x, 0 when there is none
FirstWithId(log, x) ==
    IF \E i \in 1..Len(log) : log[i].id = x
    THEN CHOOSE i \in 1..Len(log) :
             log[i].id = x /\ \A j \in 1..(i - 1) : log[j].id # x
    ELSE 0

\* C8: getEventsAfter(session, X) returns the events of the session's log that
\* follow the first event whose id is X, in log order; with X absent (falsy)
\* or the id of no event of the log, it returns the whole log.
C8_GetEventsAfterIsSuffix ==
    ret.op = "getEventsAfter"
    => LET log == StoreGet(store, ret.sessionId)
           p == IF ret.after = 0 THEN 0 ELSE FirstWithId(log, ret.after)
       IN /\ Len(ret.result) = Len(log) - p
          /\ \A i \in 1..Len(ret.result) : ret.result[i] = log[p + i]

C8_Witness ==
    /\ ret.op = "getEventsAfter" /\ ret.after # 0
    /\ Len(StoreGet(store, ret.sessionId)) = 3
    /\ FirstWithId(StoreGet(store, ret.sessionId), ret.after) = 2
    /\ Len(ret.result) = 1

\* C9: in every log of the store the event ids are strictly increasing in log
\* order, so that no id occurs twice.
C9_EventIdsStrictlyIncreasing ==
    \A k \in DOMAIN store :
        \A i, j \in 1..Len(store[k]) : i < j => store[k][i].id < store[k][j].id

\* C10: a tools/call that names a tool outside the catalog, sent to a
\* registered session and accepted by the transport, is answered 200 with a
\* result whose isError is true and whose message names the tool; no backend
\* call is started and the session stays registered and open.
C10_UnknownToolIsToolError ==
    [][ (Answered /\ last'.verb = "POST" /\ last'.method = "tools/call"
            /\ last'.arg \notin ToolNames /\ last'.sid \in DOMAIN transports /\ last'.acc)
        => /\ last'.status = 200 /\ last'.kind = "result"
           /\ last'.isError /\ last'.names = last'.arg
           /\ UNCHANGED <<pending, transports, tobj>>
      ]_vars

C10_Witness ==
    /\ last.verb = "POST" /\ last.method = "tools/call" /\ last.arg = "nonexistent_tool"
    /\ last.status = 200 /\ last.isError /\ last.names = "nonexistent_tool"
    /\ last.sid \in DOMAIN transports /\ ~tobj[transports[last.sid]].closed

\* C11: when the backend call of a tools/call fails, the call is answered 200
\* with a result whose isError is true and which carries the error's message,
\* not with a JSON-RPC error; the session stays registered and open.
C11_BackendErrorIsToolError ==
    [][ (Answered /\ last'.backend = "failed" /\ last'.method = "tools/call")
        => /\ last'.status = 200 /\ last'.kind = "result"
           /\ last'.isError /\ last'.names = "error.message"
           /\ last'.sid \in DOMAIN transports'
           /\ ~tobj'[transports'[last'.sid]].closed
           /\ UNCHANGED <<transports, tobj>>
      ]_vars

C11_Witness ==
    /\ last.backend = "failed" /\ last.method = "tools/call" /\ last.arg \in ToolNames
    /\ last.status = 200 /\ last.isError
    /\ last.sid \in DOMAIN transports

\* C12: a resources/read for a URI outside the resource catalog is answered
\* with a JSON-RPC error (not a result) that names the URI.
C12_UnknownResourceIsProtocolError ==
    [][ (Answered /\ last'.verb = "POST" /\ last'.method = "resources/read"
            /\ last'.arg \notin ResourceUris /\ last'.sid \in DOMAIN transports /\ last'.acc)
        => (last'.kind = "error" /\ last'.names = last'.arg)
      ]_vars

\* C16: when the client of an open push-stream disconnects, the stream is
\* released while the registry and every event log stay as they were; a GET
\* carrying a registered id and a Last-Event-Id is accepted (200, a stream);
\* and an id leaves the registry only in the step of a DELETE that carries it.
C16_DisconnectKeepsSession ==
    [][ /\ \A t \in 1..Len(tobj) :
              (tobj[t].sse /\ ~tobj'[t].sse /\ ~tobj'[t].closed)
              => /\ UNCHANGED <<transports, eventStores>>
                 /\ tobj[t].sessionId \in DOMAIN transports'
                 /\ transports'[tobj[t].sessionId] = t
        /\ (Answered /\ last'.verb = "GET" /\ last'.arg = "last-event-id"
               /\ last'.sid \in DOMAIN transports /\ last'.acc)
           => (last'.status = 200 /\ last'.kind = "stream")
        /\ \A k \in DOMAIN transports \ DOMAIN transports' :
              Answered /\ last'.verb = "DELETE" /\ last'.sid = k
      ]_vars

\* the stream the last GET opened is gone again, its session and log are there
C16_Witness ==
    /\ last.verb = "GET" /\ last.arg = "" /\ last.status = 200 /\ last.kind = "stream"
    /\ last.sid \in DOMAIN transports
    /\ ~tobj[transports[last.sid]].sse /\ ~tobj[transports[last.sid]].closed
    /\ StoreGet(eventStores[transports[last.sid]], last.sid) # << >>

\* C20: while a POST of a session is suspended at its backend call, another
\* POST carrying the same session id is not answered (it waits) unless it is
\* rejected.
C20_SameSessionPostsSerialized ==
    [][ (Answered /\ last'.verb = "POST" /\ last'.sid \in DOMAIN transports
            /\ pending[transports[last'.sid]] # {} /\ pending' = pending)
        => last'.status >= 400
      ]_vars

\* a step in which the request req got its response
Served == last' # last /\ last'.verb # "none"

C14_NoSecretLetsAllPass ==
    [][ (Served /\ mcpApiKey = "") => last'.status \notin {401, 403} ]_vars

C14_Witness ==
    /\ mcpApiKey = "" /\ req.path = McpPath /\ req.apiKey = "wrong"
    /\ last.verb = "POST" /\ last.method = "initialize" /\ last.status = 200
    /\ last.hdr \in DOMAIN transports

\* C15: a GET of the health path or of the root path is answered by its route
\* whatever the secret and the X-API-Key header are, and changes no session
\* state; on every other path a request without the configured secret is
\* answered by the gate (401 or 403) and changes no session state either.
C15_HealthAndRootBypass ==
    [][ /\ (Served /\ req.path \in {HealthPath, RootPath})
           => /\ last'.status = 200
              /\ last'.kind = (IF req.path = HealthPath THEN "health" ELSE "info")
              /\ UNCHANGED <<transports, tobj, eventStores, pending, uuidCount>>
        /\ (Served /\ req.path \notin {HealthPath, RootPath}
               /\ mcpApiKey # "" /\ req.apiKey # mcpApiKey)
           => /\ last'.status \in {401, 403}
              /\ UNCHANGED <<transports, tobj, eventStores, pending, uuidCount>>
      ]_vars

C15_Witness ==
    /\ mcpApiKey = "K" /\ req.path = HealthPath /\ req.apiKey = "wrong"
    /\ last.verb = "GET" /\ last.status = 200 /\ last.kind = "health"
    /\ DOMAIN transports # {}

\* C17: the shutdown handler calls close for every session the loop finds in
\* the registry; a close that throws is recorded (logged) and the loop goes
\* on; whatever the number of failed closes, the handler is never stuck
\* between two iterations and ends in process.exit.  At exit, a session the
\* loop enumerated either had its close called or had left the registry
\* before its turn, and one that is still registered is one whose close threw.
C17_ShutdownClosesEverySession ==
    /\ sd.failed \subseteq sd.attempted
    /\ sd.pc = "loop" => ENABLED SdStep
    /\ sd.pc = "exited"
       => \A j \in 1..Len(sd.keys) :
             /\ sd.keys[j] \in sd.attempted \/ sd.keys[j] \notin DOMAIN transports
             /\ sd.keys[j] \in DOMAIN transports => sd.keys[j] \in sd.failed

\* the close of the first session threw, the second was closed all the same
C17_Witness ==
    /\ sd.pc = "exited" /\ Len(sd.keys) = 2
    /\ sd.failed = {sd.keys[1]} /\ sd.attempted = {sd.keys[1], sd.keys[2]}
    /\ sd.keys[1] \in DOMAIN transports /\ sd.keys[2] \notin DOMAIN transports

\* C18: once the shutdown signal is handled the process eventually exits,
\* also when the close of a session never settles.
C18_ShutdownTerminates == (sd.pc # "serving") ~> (sd.pc = "exited")

\* C19: a tools/call that awaits the backend is eventually answered (or its
\* session torn down) while the process serves, also when the backend stays
\* silent.
C19_ToolCallEventuallyAnswered ==
    \A t \in 1..MaxSessions :
        (t <= Len(pending) /\ pending[t] # {})
        ~> ((t <= Len(pending) /\ pending[t] = {}) \/ sd.pc # "serving")

\* C21: however two initialize POSTs without session id overlap, each gets
\* its own transport and event log and its own session id; every transport
\* that got an id and is open is registered under that id and under no other,
\* and every registry entry leads to the transport that carries its key.
C21_ConcurrentInitializeDistinct ==
    /\ Len(eventStores) = Len(tobj)
    /\ \A t1, t2 \in 1..Len(tobj) :
          (t1 # t2 /\ tobj[t1].sessionId # "") => tobj[t1].sessionId # tobj[t2].sessionId
    /\ \A t \in 1..Len(tobj) :
          (tobj[t].sessionId # "" /\ ~tobj[t].closed)
          => (tobj[t].sessionId \in DOMAIN transports /\ transports[tobj[t].sessionId] = t)
    /\ \A k \in DOMAIN transports :
          transports[k] \in 1..Len(tobj) /\ tobj[transports[k]].sessionId = k

\* the request that began second finished first; both sessions are registered
C21_Witness ==
    /\ Len(tobj) = 2 /\ tobj[1].sessionId = Uuid(2) /\ tobj[2].sessionId = Uuid(1)
    /\ DOMAIN transports = {Uuid(1), Uuid(2)}
    /\ transports[Uuid(1)] = 2 /\ transports[Uuid(2)] = 1

\* C22: the store of a transport holds the log of that transport's session
\* and of no other; a step changes the store of at most one transport; and a
\* request leaves the registry entry of every session other than the one it
\* names as it was.
C22_SessionsIsolated ==
    [][ /\ \A t \in 1..Len(eventStores') :
              DOMAIN eventStores'[t] \subseteq {tobj'[t].sessionId}
        /\ \A t, u \in 1..Len(eventStores) :
              (t # u /\ eventStores'[t] # eventStores[t]) => eventStores'[u] = eventStores[u]
        /\ Answered
           => \A k \in DOMAIN transports \ {last'.sid} :
                 k \in DOMAIN transports' /\ transports'[k] = transports[k]
      ]_vars

\* two sessions, each with an event in its own log
C22_Witness ==
    /\ Len(tobj) = 2 /\ DOMAIN transports = {tobj[1].sessionId, tobj[2].sessionId}
    /\ StoreGet(eventStores[1], tobj[1].sessionId) # << >>
    /\ StoreGet(eventStores[2], tobj[2].sessionId) # << >>
    /\ StoreGet(eventStores[1], tobj[2].sessionId) = << >>

\* C23: in every log the n-th event is the n-th one appended (appends never
\* move what is there), and whatever appends came before it, a read returns
\* events in append order, without gaps, up to the newest one.
C23_AppendOrderKept ==
    /\ \A k \in DOMAIN store : \A i \in 1..Len(store[k]) : store[k][i].payload = i
    /\ ret.op = "getEventsAfter"
       => LET res == ret.result
              log == StoreGet(store, ret.sessionId)
          IN /\ \A i \in 1..(Len(res) - 1) : res[i + 1].payload = res[i].payload + 1
             /\ Len(res) > 0 => res[Len(res)] = log[Len(log)]

C23_Witness ==
    /\ ret.op = "getEventsAfter" /\ ret.after # 0
    /\ Len(ret.result) = 2 /\ ret.result[1].payload = 2 /\ ret.result[2].payload = 3

\* C24: every key of the registry leads to one open transport whose own
\* sessionId is the key, and no transport is registered under two keys.
C24_OneTransportPerSession ==
    /\ \A k \in DOMAIN transports :
          /\ transports[k] \in 1..Len(tobj)
          /\ tobj[transports[k]].sessionId = k
          /\ ~tobj[transports[k]].closed
    /\ \A k1, k2 \in DOMAIN transports : transports[k1] = transports[k2] => k1 = k2

C24_Witness ==
    /\ Len(tobj) = 2 /\ tobj[1].closed
    /\ DOMAIN transports = {tobj[2].sessionId} /\ transports[tobj[2].sessionId] = 2

\* C25: a well-formed tools/list POST that reaches the transport of an
\* initialized session is answered 200 with a result carrying the catalog of
\* the ListTools handler, whichever session it is and whatever came before.
C25_ToolsListStatic ==
    (last.verb = "POST" /\ last.method = "tools/list" /\ last.acc /\ last.t # 0 /\ last.hdr # "")
    => (last.status = 200 /\ last.kind = "result" /\ last.tools = ListTools)

\* the catalog as the second session gets it after the first one was closed
C25_Witness ==
    /\ last.verb = "POST" /\ last.method = "tools/list" /\ last.tools = ListTools
    /\ uuidCount = 2 /\ last.sid = Uuid(2) /\ tobj[1].closed

\* C27: every transport is created with enableJsonResponse set and keeps it,
\* and every POST is answered with one JSON body, never on a stream held open.
C27_ResponseModeJson ==
    /\ \A t \in 1..Len(tobj) : tobj[t].enableJsonResponse
    /\ last.verb = "POST" => last.mode = "json"

\* a tools/call that waited for the backend, answered as JSON
C27_Witness ==
    /\ last.verb = "POST" /\ last.method = "tools/call" /\ last.backend = "answered"
    /\ last.mode = "json" /\ last.t # 0 /\ tobj[last.t].enableJsonResponse

\* C28: an initialize POST that carries the id of a registered session is
\* handled by that session's transport and fails; it creates no session and
\* leaves the registry, the transports and their ids as they were.
C28_SecondInitializeOnSession ==
    [][ (Answered /\ last'.verb = "POST" /\ last'.method = "initialize"
         /\ last'.sid \in DOMAIN transports)
        => /\ UNCHANGED <<transports, tobj, eventStores, uuidCount>>
           /\ last'.t = transports[last'.sid]
           /\ last'.hdr = last'.sid
           /\ last'.status >= 400 /\ last'.kind = "error"
      ]_vars

C28_Witness ==
    /\ last.verb = "POST" /\ last.method = "initialize" /\ last.acc
    /\ last.sid \in DOMAIN transports /\ last.t = transports[last.sid]
    /\ last.status = 400 /\ last.code = -32600

\* C29: no request gets more than one response.  When handleRequest throws
\* before headers were sent, the POST is answered 500 with code -32603; when
\* it throws after, the response already begun stays the only one.
C29_AtMostOneResponse ==
    /\ last.sent <= 1
    /\ (last.verb = "POST" /\ last.threw = "before")
       => (last.sent = 1 /\ last.status = 500 /\ last.code = -32603)
    /\ last.threw = "after" => (last.sent = 1 /\ last.status # 500)

C29_Witness ==
    /\ last.verb = "POST" /\ last.threw = "after" /\ last.sent = 1
    /\ last.sid \in DOMAIN transports

\* C30: a request of a registered session during which the transport throws
\* ends with the session closed and removed from the registry.
C30_TransportFailureAbortsSession ==
    [][ (Answered /\ last'.threw # "none" /\ last'.sid \in DOMAIN transports)
        => (last'.sid \notin DOMAIN transports' /\ tobj'[last'.t].closed)
      ]_vars

\* C26: a tools/list request POSTed to /messages while an SSE connection is
\* open is handed to the transport of a connection, or is answered with the
\* tools list in the response.
C26_MessagesDelivered ==
    [][ (legacy'.res # legacy.res /\ legacy'.res.method = "tools/list"
         /\ \E c \in 1..Len(legacy.conns) : legacy.conns[c].open)
        => \/ \E c \in 1..Len(legacy.conns) :
                 "tools/list" \in legacy'.conns[c].inbox
           \/ legacy'.res.tools = ListTools
      ]_vars

\* C31: a well-formed request with a method no handler is registered for, sent
\* to a registered session, is answered with a JSON-RPC error (method not
\* found), and the session is still registered with its open transport.
C31_UnknownMethodKeepsSession ==
    (last.verb = "POST" /\ last.method = "no/such_method" /\ last.acc /\ last.t # 0)
    => /\ last.kind = "error" /\ last.code = -32601
       /\ last.sid \in DOMAIN transports /\ transports[last.sid] = last.t
       /\ ~tobj[last.t].closed
       /\ ENABLED PostReuse(last.sid, [method |-> "tools/list", arg |-> ""], TRUE)

C31_Witness ==
    /\ last.verb = "POST" /\ last.method = "no/such_method" /\ last.code = -32601
    /\ last.sid \in DOMAIN transports /\ ~tobj[last.t].closed

\* C32: a JSON-RPC response to a POST carries the id of the request it answers.
C32_ResponseEchoesId ==
    [][ (Served /\ last'.verb = "POST" /\ last'.kind \in {"result", "error"})
        => last'.id = req.id
      ]_vars

\* C33: removing an id from the registry twice is the same as removing it
\* once, removing an absent id changes nothing, and a removal leaves every
\* other entry as it was; the shutdown loop, whose explicit delete follows the
\* removal by onclose, takes away only the entry of the session it closed.
C33_RemoveIdempotent ==
    /\ [](\A sid \in SessionHeaders :
            LET r1 == onclose(transports, sid)
            IN /\ onclose(r1, sid) = r1
               /\ sid \notin DOMAIN transports => r1 = transports
               /\ \A k \in DOMAIN transports \ {sid} : k \in DOMAIN r1 /\ r1[k] = transports[k])
    /\ [][ (sd.pc = "await" /\ sd'.pc = "loop")
            => \A k \in DOMAIN transports \ {sd.keys[sd.i]} :
                  k \in DOMAIN transports' /\ transports'[k] = transports[k]
         ]_vars

\* the loop has closed one session (onclose, then the delete of the absent
\* id) and the other one is still registered
C33_Witness ==
    /\ sd.pc = "loop" /\ sd.failed = {}
    /\ \E sid \in sd.attempted : sid \notin DOMAIN transports
    /\ DOMAIN transports # {}

\* C34: as long as a log exists, the n-th event appended to it is its n-th
\* event (none is dropped or moved) and an append puts its event at the end;
\* from every store the program can hold, clearSession(s) leaves s with an
\* empty log (every getEventsAfter of s is then empty), changes nothing when
\* s has no log, and leaves the log of every other session as it was; after
\* a clearSession call the session has no log.
C34_NoEvictionClearFrame ==
    /\ \A k \in DOMAIN store :
          /\ Len(store[k]) > 0
          /\ \A i \in 1..Len(store[k]) : store[k][i].payload = i
    /\ ret.op = "addEvent"
       => LET log == StoreGet(store, ret.sessionId)
          IN Len(log) > 0 /\ log[Len(log)].id = ret.after
    /\ \A s \in StoreKeys :
          LET c == clearSession(store, s)
          IN /\ StoreGet(c, s) = << >>
             /\ \A id \in 0..(MaxEventId + 1) : getEventsAfter(c, s, id) = << >>
             /\ s \notin DOMAIN store => c = store
             /\ \A k \in DOMAIN store \ {s} : k \in DOMAIN c /\ c[k] = store[k]
    /\ ret.op = "clearSession" => ret.sessionId \notin DOMAIN store

\* one session was cleared while the other keeps its full log
C34_Witness ==
    /\ ret.op = "clearSession" /\ ret.sessionId = "s1" /\ "s1" \notin DOMAIN store
    /\ "s2" \in DOMAIN store /\ Len(store["s2"]) = MaxStoreLog

\* C35: a sequence getEventsAfter returned stays what it was when events are
\* appended afterwards.
C35_ReturnedSequenceStable ==
    [][ (ret.op = "getEventsAfter" /\ ret'.op = "getEventsAfter" /\ store' # store)
        => ret'.result = ret.result
      ]_vars

\* C36: a step adds a key to the registry only if it answers 200 an initialize
\* POST that carried no session id, and then it adds one key, the id it
\* returns in the Mcp-Session-Id header; no other step adds a key or puts a
\* torn-down session back.
C36_OnlyInitializeRegisters ==
    [][ /\ ~(DOMAIN transports' \subseteq DOMAIN transports)
           => /\ Answered /\ last'.verb = "POST" /\ last'.sid = ""
              /\ last'.method = "initialize" /\ last'.status = 200
              /\ DOMAIN transports' \ DOMAIN transports = {last'.hdr}
        /\ \A t \in 1..Len(tobj) :
              tobj[t].closed => tobj[t].sessionId \notin DOMAIN transports'
      ]_vars

\* the second session registered by its initialize, after the first was torn down
C36_Witness ==
    /\ last.verb = "POST" /\ last.method = "initialize" /\ last.sid = ""
    /\ last.status = 200 /\ last.hdr = Uuid(2) /\ DOMAIN transports = {Uuid(2)}
    /\ tobj[1].closed

\* C37: a request answered 401 or 403 leaves the registry, every transport,
\* every event log, the pending calls and the id counter unchanged, and its
\* response is the one the gate computes from the path, the secret and the
\* X-API-Key header alone: it names no session and is the same whatever
\* sessions exist.
C37_GateBeforeSessionLogic ==
    [][ (Served /\ last'.status \in {401, 403})
        => /\ UNCHANGED <<transports, tobj, eventStores, pending, uuidCount>>
           /\ last' = Response(last'.verb, "", NoBody, FALSE, 0, "",
                               authenticateApiKey(req.path, mcpApiKey, req.apiKey))
           /\ last'.hdr = "" /\ last'.t = 0 /\ last'.sid = ""
      ]_vars

\* a DELETE with a wrong key is refused while a session is registered
C37_Witness ==
    /\ mcpApiKey = "K" /\ req.path = McpPath /\ req.apiKey = "wrong"
    /\ last.verb = "DELETE" /\ last.status = 403
    /\ DOMAIN transports # {} /\ \A t \in 1..Len(tobj) : ~tobj[t].closed

\* C38: when the shutdown handler has reached process.exit and no close
\* threw, no session is registered and every transport is closed.
C38_ExitLeavesNoSession ==
    (sd.pc = "exited" /\ sd.failed = {})
    => (DOMAIN transports = {} /\ \A t \in 1..Len(tobj) : tobj[t].closed)

====
